---- MODULE Spec2Model ----
(***************************************************************************)
(* Model of the form components of the repository.                         *)
(*                                                                         *)
(* ProductForm (client/src/components/products/ProductForm.tsx): the tabs  *)
(* of the form, the section Save buttons and the product request, and the  *)
(* "Variants & Attributes" tab: the two attribute sets (selected colors,   *)
(* selected sizes), the custom-label inputs, the variant-matrix generator  *)
(* and the generated-variant table.                                        *)
(*                                                                         *)
(* CheckoutForm (unnamed/part_000): the three checkout steps, the shipping *)
(* address, payment and notes fields, the saved-address selection and the  *)
(* order request.                                                          *)
(*                                                                         *)
(* S3FileUpload (unnamed/part_001): the selected file or files, the        *)
(* preview, the FileReader reads that fill the preview and the upload      *)
(* request.                                                                *)
(*                                                                         *)
(* A run mounts one of the components.  An event handler runs to           *)
(* completion before the next event is dispatched; a handler that awaits   *)
(* the validation of the in-memory form values (form.trigger,              *)
(* form.handleSubmit) resumes from the microtask queue, before any other   *)
(* event, so it is one action.  ClickNext and NextStepResumes show the     *)
(* await of handleNextStep as two steps, with the event loop between them. *)
(* A network request and a FileReader read are in flight: starting one and *)
(* receiving its response or result are separate actions.                  *)
(*                                                                         *)
(* Text is modelled as a sequence of one-character strings, so that        *)
(* trim(), substring() and toUpperCase() are computed, not assumed.        *)
(* Decimal amounts are modelled in tenths of a currency unit (integers),   *)
(* so that the factors 1.2 and 0.7 are exact.                              *)
(***************************************************************************)
EXTENDS Integers, Sequences, FiniteSets, TLC

\* ------------------------------------------------------------------ bounds

\* The user clicks only the first MaxPick badges of each predefined list.
MaxPick == 2

\* requests of one form in flight at a time
MaxInFlight == 2

\* FileReader reads of the upload widget in progress at a time
MaxReads == 2

\* ------------------------------------------------------------------- text

Range(s) == {s[i] : i \in 1..Len(s)}

Includes(s, x) == \E i \in 1..Len(s) : s[i] = x

\* Array.prototype.filter(e => e !== x)
FilterOut(s, x) == SelectSeq(s, LAMBDA e : e # x)

Min(a, b) == IF a <= b THEN a ELSE b

\* the sequence without its k-th element
DeleteAt(s, k) == SubSeq(s, 1, k - 1) \o SubSeq(s, k + 1, Len(s))

\* String.prototype.substring(from, to) with 0 <= from <= to, clamped to length
Substring(s, from, to) == SubSeq(s, Min(from, Len(s)) + 1, Min(to, Len(s)))

IsSpace(c) == c = " "

RECURSIVE TrimStart(_)
TrimStart(s) ==
    IF s # <<>> /\ IsSpace(Head(s)) THEN TrimStart(Tail(s)) ELSE s

RECURSIVE TrimEnd(_)
TrimEnd(s) ==
    IF s # <<>> /\ IsSpace(s[Len(s)]) THEN TrimEnd(SubSeq(s, 1, Len(s) - 1)) ELSE s

\* String.prototype.trim()
Trim(s) == TrimEnd(TrimStart(s))

LowerLetters ==
    << "a", "b", "c", "d", "e", "f", "g", "h", "i", "j", "k", "l", "m",
       "n", "o", "p", "q", "r", "s", "t", "u", "v", "w", "x", "y", "z" >>

UpperLetters ==
    << "A", "B", "C", "D", "E", "F", "G", "H", "I", "J", "K", "L", "M",
       "N", "O", "P", "Q", "R", "S", "T", "U", "V", "W", "X", "Y", "Z" >>

UpperChar(c) ==
    IF \E i \in 1..Len(LowerLetters) : LowerLetters[i] = c
    THEN UpperLetters[CHOOSE i \in 1..Len(LowerLetters) : LowerLetters[i] = c]
    ELSE c

\* String.prototype.toUpperCase()
ToUpperCase(s) == [i \in 1..Len(s) |-> UpperChar(s[i])]

\* ------------------------------------------------------- labels and inputs

\* The null reference: a value no text equals (texts hold one-character strings).
Null == << "null" >>

\* JavaScript truthiness of a string-or-null value
Truthy(t) == t # Null /\ t # <<>>

Red == << "R", "e", "d" >>
Blue == << "B", "l", "u", "e" >>
Green == << "G", "r", "e", "e", "n" >>
Black == << "B", "l", "a", "c", "k" >>
White == << "W", "h", "i", "t", "e" >>

SizeS == << "S" >>
SizeM == << "M" >>
SizeL == << "L" >>
SizeXL == << "X", "L" >>
SizeXXL == << "X", "X", "L" >>

\* the predefined badges of the two attribute lists
PredefinedColors == << Red, Blue, Green, Black, White >>
PredefinedSizes == << SizeS, SizeM, SizeL, SizeXL, SizeXXL >>

\* the badges the modelled user clicks
ClickColors == {PredefinedColors[i] : i \in 1..Min(MaxPick, Len(PredefinedColors))}
ClickSizes == {PredefinedSizes[i] : i \in 1..Min(MaxPick, Len(PredefinedSizes))}

\* what the modelled user types into the custom-label inputs: a new label with
\* surrounding blanks, a label equal to a predefined badge, and blanks only
ColorTexts == { << " ", "T", "e", "a", "l", " " >>, << "R", "e", "d" >>, << " ", " " >> }
SizeTexts == { << "X", "S", " " >>, << " ", "S" >> }

\* what the modelled user types into the base fields of the form
NameTexts == { <<>>, << "a", "b" >>, << "s", "h", "i", "r", "t" >> }
SkuTexts == { <<>>, << "S", "H", "I" >> }
PriceInputs == { 0 - 5, 0, 100 }

\* the product handed to the form in edit mode
Products ==
    { [name |-> << "s", "h", "i", "r", "t" >>, sku |-> << "S", "H", "I" >>, sellingPrice |-> 100] }

\* the values Math.random().toString(36).substring(2, 9) yields in the model:
\* up to seven characters of 0-9a-z (one character for a draw such as 0.5)
IdValues == { "k3x9q2a", "i" }

NoToast == "none"

\* ---------------------------------------------------- tabs and sections

\* the components a run can mount
Components == { "ProductForm", "CheckoutForm", "S3FileUpload" }

\* TabsTrigger values, in the order of the TabsList
Tabs == << "basic", "pricing", "inventory", "category", "media", "variants" >>

\* the target of the Next button rendered in each tab's content
NextTab ==
    [ basic |-> "pricing", pricing |-> "inventory", inventory |-> "category",
      category |-> "media", media |-> "attributes" ]

\* the target of the Previous button rendered in each tab's content
PreviousTab ==
    [ pricing |-> "basic", inventory |-> "pricing", category |-> "inventory",
      media |-> "category", variants |-> "media" ]

\* the tab whose content holds the Save button of each section
SectionTab ==
    [ Pricing |-> "pricing", Inventory |-> "inventory", Categorization |-> "category",
      Media |-> "media", VariantsAndAttributes |-> "variants" ]

\* the name each Save button passes to setActiveSection
SectionName ==
    [ Pricing |-> "Pricing", Inventory |-> "Inventory", Categorization |-> "Categorization",
      Media |-> "Media", VariantsAndAttributes |-> "Variants & Attributes" ]

Sections == DOMAIN SectionTab

NoSection == "null"

\* no request in flight
NoRequest == [ pending |-> FALSE ]

\* ------------------------------------------------------- checkout inputs

Steps == << "shipping", "payment", "review" >>

India == << "I", "n", "d", "i", "a" >>

\* the fields of the shippingAddress group, and those the schema requires
ShippingFields ==
    { "addressLine1", "addressLine2", "city", "state", "postalCode", "country" }
RequiredShippingFields == ShippingFields \ { "addressLine2" }

\* a saved address of the signed-in customer, as AddressList hands it over
Home ==
    [ id |-> 1, addressLine1 |-> << "1" >>, addressLine2 |-> Null, city |-> << "C" >>,
      state |-> << "S" >>, postalCode |-> << "9" >>, country |-> India ]

SavedAddresses == { Home }

NoAddress == [ id |-> 0 ]

\* shippingAddressId while no saved address was selected
Undefined == 0

\* the texts typed into each address input: nothing, or a value
AddressTexts ==
    [ addressLine1 |-> { <<>>, << "1" >> }, addressLine2 |-> { <<>>, << "2" >> },
      city |-> { <<>>, << "C" >> }, state |-> { <<>>, << "S" >> },
      postalCode |-> { <<>>, << "9" >> }, country |-> { <<>>, India } ]

NoteTexts == { <<>>, << "n" >> }

\* RadioGroupItem values that are not disabled
EnabledPaymentMethods == { "cod" }
PaymentMethods == { "cod", "paypal", "stripe" }

\* no call of handleNextStep is waiting for the verdict of form.trigger
NoValidation == [ pending |-> FALSE ]

\* --------------------------------------------------------- upload inputs

\* String.prototype.startsWith(prefix)
StartsWith(s, prefix) == Len(s) >= Len(prefix) /\ SubSeq(s, 1, Len(prefix)) = prefix

\* the default of the maxSizeMB prop, and the size limit in bytes it stands for
maxSizeMB == 5
MaxFileSize == maxSizeMB * 1024 * 1024

ImagePrefix == << "i", "m", "a", "g", "e", "/" >>
ImagePng == ImagePrefix \o << "p", "n", "g" >>
ApplicationPdf == << "a", "p", "p", "l", "i", "c", "a", "t", "i", "o", "n", "/", "p", "d", "f" >>

\* the files of the modelled user: a small image, an image of exactly the size
\* limit, a document, and an image one byte over the limit
Photo == [ name |-> "photo.png", type |-> ImagePng, size |-> 1024 ]
Poster == [ name |-> "poster.png", type |-> ImagePng, size |-> MaxFileSize ]
Manual == [ name |-> "manual.pdf", type |-> ApplicationPdf, size |-> 2048 ]
Scan == [ name |-> "scan.png", type |-> ImagePng, size |-> MaxFileSize + 1 ]

LocalFiles == { Photo, Poster, Manual, Scan }

\* event.target.files: what the file picker hands over.  Nothing (the picker was
\* cancelled), one file, or with the `multiple` attribute two different files
FileLists(many) ==
    { <<>> } \cup { << f >> : f \in LocalFiles }
        \cup (IF many
              THEN { pair \in LocalFiles \X LocalFiles : pair[1] # pair[2] }
              ELSE { })

NoFile == [ name |-> "null" ]
NoPreview == "null"

\* reader.result of readAsDataURL(file)
DataUrl(file) == "data:" \o file.name

\* ------------------------------------------------------------------ state

VARIABLES
    isEditing,          \* prop: the form edits an existing product
    form,               \* base fields read by the generator: name, sku, sellingPrice
    selectedColors,     \* useState<string[]>
    selectedSizes,      \* useState<string[]>
    generatedVariants,  \* useState<any[]>
    customColor,        \* text of the custom-color input
    customSize,         \* text of the custom-size input
    handler,            \* the event handler that ran last
    toast,              \* the title of the toast that handler raised, or NoToast
    staleDropped,       \* history: the last handler replaced a collection that held
                        \* a record whose color or size was no longer selected
    mounted,            \* the component this run mounts
    activeTab,          \* ProductForm useState("basic")
    isSubmitting,       \* ProductForm useState(false)
    activeSection,      \* ProductForm useState<string | null>(null)
    productRequests,    \* the create/update requests in flight, each with the
                        \* onSubmit call that awaits it
    step,               \* CheckoutForm useState("shipping")
    addressTab,         \* CheckoutForm useState("saved")
    selectedAddress,    \* CheckoutForm useState<CustomerAddress | null>(null)
    user,               \* the session query: "loading", "guest" or "customer"
    checkoutForm,       \* values of the checkout form
    orderRequest,       \* the checkout request in flight, or NoRequest
    validation,         \* CheckoutForm: the call of handleNextStep that awaits
                        \* form.trigger, or NoValidation
    multiple,           \* S3FileUpload prop
    showPreview,        \* S3FileUpload prop
    selectedFile,       \* S3FileUpload useState<File | null>(null)
    selectedFiles,      \* S3FileUpload useState<File[]>([])
    previewUrl,         \* S3FileUpload useState<string | null>(null)
    inputFiles,         \* the files held by the <input type="file"> element
    reads,              \* the files whose readAsDataURL is in progress
    uploadRequest       \* the upload request in flight, or NoRequest

\* the state of the product form outside the Variants tab
wizardVars == << mounted, activeTab, isSubmitting, activeSection, productRequests >>

\* the state of the checkout form
checkoutVars ==
    << step, addressTab, selectedAddress, user, checkoutForm, orderRequest, validation >>

\* the state of the upload widget
uploadVars ==
    << multiple, showPreview, selectedFile, selectedFiles, previewUrl, inputFiles, reads,
       uploadRequest >>

vars ==
    << isEditing, form, selectedColors, selectedSizes, generatedVariants,
       customColor, customSize, handler, toast, staleDropped, wizardVars, checkoutVars,
       uploadVars >>

\* useForm defaultValues: product?.x || fallback
DefaultValues(product) ==
    [ name |-> IF Truthy(product.name) THEN product.name ELSE <<>>,
      sku |-> IF Truthy(product.sku) THEN product.sku ELSE Null,
      sellingPrice |-> IF product.sellingPrice # 0 THEN product.sellingPrice ELSE 0 ]

NoProduct == [name |-> Null, sku |-> Null, sellingPrice |-> 0]

\* CheckoutForm useForm defaultValues
CheckoutDefaultValues ==
    [ shippingAddressId |-> Undefined,
      shippingAddress |->
          [ addressLine1 |-> <<>>, addressLine2 |-> <<>>, city |-> <<>>,
            state |-> <<>>, postalCode |-> <<>>, country |-> India ],
      paymentMethod |-> "cod",
      notes |-> <<>> ]

Init ==
    /\ mounted \in Components
    /\ isEditing \in (IF mounted = "ProductForm" THEN BOOLEAN ELSE { FALSE })
    /\ \E product \in (IF isEditing THEN Products ELSE {NoProduct}) :
          form = DefaultValues(product)
    /\ activeTab = "basic"
    /\ isSubmitting = FALSE
    /\ activeSection = NoSection
    /\ productRequests = <<>>
    /\ step = "shipping"
    /\ addressTab = "saved"
    /\ selectedAddress = NoAddress
    /\ user = "loading"
    /\ checkoutForm = CheckoutDefaultValues
    /\ orderRequest = NoRequest
    /\ validation = NoValidation
    /\ multiple \in (IF mounted = "S3FileUpload" THEN BOOLEAN ELSE { FALSE })
    /\ showPreview \in (IF mounted = "S3FileUpload" THEN BOOLEAN ELSE { TRUE })
    /\ selectedFile = NoFile
    /\ selectedFiles = <<>>
    /\ previewUrl = NoPreview
    /\ inputFiles = <<>>
    /\ reads = <<>>
    /\ uploadRequest = NoRequest
    /\ selectedColors = <<>>
    /\ selectedSizes = <<>>
    /\ generatedVariants = <<>>
    /\ customColor = <<>>
    /\ customSize = <<>>
    /\ handler = "none"
    /\ toast = NoToast
    /\ staleDropped = FALSE

\* ------------------------------------------------------- attribute sets

\* a Variants tab that shows its controls in create mode too
VariantControlsAlwaysRendered == TRUE

\* The Variants tab renders the badges, the custom-label inputs, Generate and the
\* variant table in edit mode, and a placeholder text otherwise:
\* {isEditing ? (...) : (...)}
VariantControlsRendered == isEditing

\* a badge onClick that never removes: it appends whether or not the label is selected
ToggleAttributeAlwaysAppends(set, label) == Append(set, label)

\* a badge onClick that puts a newly selected label in front
ToggleAttributePrepends(set, label) ==
    IF Includes(set, label) THEN FilterOut(set, label) ELSE << label >> \o set

\* badge onClick: remove the label when selected, append it otherwise
ToggleAttribute(set, label) ==
    IF Includes(set, label) THEN FilterOut(set, label) ELSE Append(set, label)

\* custom-label add: the set after Enter / Add on the typed text
AddCustomAttribute(set, raw) ==
    IF Trim(raw) # <<>> /\ ~Includes(set, Trim(raw)) THEN Append(set, Trim(raw)) ELSE set

\* a color badge onClick that also empties the generated collection
ToggleColorClearsVariants(color) ==
    /\ mounted = "ProductForm"
    /\ VariantControlsRendered
    /\ selectedColors' = ToggleAttribute(selectedColors, color)
    /\ generatedVariants' = <<>>
    /\ handler' = "toggleColor"
    /\ staleDropped' = FALSE
    /\ toast' = NoToast
    /\ UNCHANGED << wizardVars, checkoutVars, uploadVars, isEditing, form, selectedSizes, customColor, customSize >>

ToggleColor(color) ==
    /\ mounted = "ProductForm"
    /\ VariantControlsRendered
    /\ selectedColors' = ToggleAttribute(selectedColors, color)
    /\ handler' = "toggleColor"
    /\ staleDropped' = FALSE
    /\ toast' = NoToast
    /\ UNCHANGED << wizardVars, checkoutVars, uploadVars, isEditing, form, selectedSizes, generatedVariants, customColor, customSize >>

ToggleSize(size) ==
    /\ mounted = "ProductForm"
    /\ VariantControlsRendered
    /\ selectedSizes' = ToggleAttribute(selectedSizes, size)
    /\ handler' = "toggleSize"
    /\ staleDropped' = FALSE
    /\ toast' = NoToast
    /\ UNCHANGED << wizardVars, checkoutVars, uploadVars, isEditing, form, selectedColors, generatedVariants, customColor, customSize >>

\* the badge of a custom label (one not in the predefined list): remove it
RemoveCustomColor(color) ==
    /\ mounted = "ProductForm"
    /\ VariantControlsRendered
    /\ Includes(selectedColors, color)
    /\ ~Includes(PredefinedColors, color)
    /\ selectedColors' = FilterOut(selectedColors, color)
    /\ handler' = "removeCustomColor"
    /\ staleDropped' = FALSE
    /\ toast' = NoToast
    /\ UNCHANGED << wizardVars, checkoutVars, uploadVars, isEditing, form, selectedSizes, generatedVariants, customColor, customSize >>

RemoveCustomSize(size) ==
    /\ mounted = "ProductForm"
    /\ VariantControlsRendered
    /\ Includes(selectedSizes, size)
    /\ ~Includes(PredefinedSizes, size)
    /\ selectedSizes' = FilterOut(selectedSizes, size)
    /\ handler' = "removeCustomSize"
    /\ staleDropped' = FALSE
    /\ toast' = NoToast
    /\ UNCHANGED << wizardVars, checkoutVars, uploadVars, isEditing, form, selectedColors, generatedVariants, customColor, customSize >>

ChangeCustomColor(text) ==
    /\ mounted = "ProductForm"
    /\ VariantControlsRendered
    /\ customColor' = text
    /\ handler' = "changeCustomColor"
    /\ staleDropped' = FALSE
    /\ toast' = NoToast
    /\ UNCHANGED << wizardVars, checkoutVars, uploadVars, isEditing, form, selectedColors, selectedSizes, generatedVariants, customSize >>

ChangeCustomSize(text) ==
    /\ mounted = "ProductForm"
    /\ VariantControlsRendered
    /\ customSize' = text
    /\ handler' = "changeCustomSize"
    /\ staleDropped' = FALSE
    /\ toast' = NoToast
    /\ UNCHANGED << wizardVars, checkoutVars, uploadVars, isEditing, form, selectedColors, selectedSizes, generatedVariants, customColor >>

\* onKeyDown of the custom-color input, key Enter
KeyDownEnterColor ==
    /\ mounted = "ProductForm"
    /\ VariantControlsRendered
    /\ handler' = "enterColor"
    /\ staleDropped' = FALSE
    /\ IF Trim(customColor) # <<>>
       THEN IF ~Includes(selectedColors, Trim(customColor))
            THEN /\ selectedColors' = AddCustomAttribute(selectedColors, customColor)
                 /\ customColor' = <<>>
                 /\ toast' = NoToast
            ELSE /\ toast' = "Color already added"
                 /\ UNCHANGED << selectedColors, customColor >>
       ELSE /\ toast' = NoToast
            /\ UNCHANGED << selectedColors, customColor >>
    /\ UNCHANGED << wizardVars, checkoutVars, uploadVars, isEditing, form, selectedSizes, generatedVariants, customSize >>

\* onClick of the Add Color button
ClickAddColor ==
    /\ mounted = "ProductForm"
    /\ VariantControlsRendered
    /\ handler' = "addColor"
    /\ staleDropped' = FALSE
    /\ IF Trim(customColor) # <<>> /\ ~Includes(selectedColors, Trim(customColor))
       THEN /\ selectedColors' = AddCustomAttribute(selectedColors, customColor)
            /\ customColor' = <<>>
            /\ toast' = NoToast
       ELSE IF Includes(selectedColors, Trim(customColor))
            THEN /\ toast' = "Color already added"
                 /\ UNCHANGED << selectedColors, customColor >>
            ELSE /\ toast' = NoToast
                 /\ UNCHANGED << selectedColors, customColor >>
    /\ UNCHANGED << wizardVars, checkoutVars, uploadVars, isEditing, form, selectedSizes, generatedVariants, customSize >>

\* onKeyDown of the custom-size input, key Enter
KeyDownEnterSize ==
    /\ mounted = "ProductForm"
    /\ VariantControlsRendered
    /\ handler' = "enterSize"
    /\ staleDropped' = FALSE
    /\ IF Trim(customSize) # <<>>
       THEN IF ~Includes(selectedSizes, Trim(customSize))
            THEN /\ selectedSizes' = AddCustomAttribute(selectedSizes, customSize)
                 /\ customSize' = <<>>
                 /\ toast' = NoToast
            ELSE /\ toast' = "Size already added"
                 /\ UNCHANGED << selectedSizes, customSize >>
       ELSE /\ toast' = NoToast
            /\ UNCHANGED << selectedSizes, customSize >>
    /\ UNCHANGED << wizardVars, checkoutVars, uploadVars, isEditing, form, selectedColors, generatedVariants, customColor >>

\* an Add Size handler that looks up the text as typed, not trimmed
ClickAddSizeUntrimmed ==
    /\ mounted = "ProductForm"
    /\ VariantControlsRendered
    /\ handler' = "addSize"
    /\ staleDropped' = FALSE
    /\ IF Trim(customSize) # <<>> /\ ~Includes(selectedSizes, customSize)
       THEN /\ selectedSizes' = Append(selectedSizes, Trim(customSize))
            /\ customSize' = <<>>
            /\ toast' = NoToast
       ELSE IF Includes(selectedSizes, customSize)
            THEN /\ toast' = "Size already added"
                 /\ UNCHANGED << selectedSizes, customSize >>
            ELSE /\ toast' = NoToast
                 /\ UNCHANGED << selectedSizes, customSize >>
    /\ UNCHANGED << wizardVars, checkoutVars, uploadVars, isEditing, form, selectedColors, generatedVariants, customColor >>

\* onClick of the Add Size button
ClickAddSize ==
    /\ mounted = "ProductForm"
    /\ VariantControlsRendered
    /\ handler' = "addSize"
    /\ staleDropped' = FALSE
    /\ IF Trim(customSize) # <<>> /\ ~Includes(selectedSizes, Trim(customSize))
       THEN /\ selectedSizes' = AddCustomAttribute(selectedSizes, customSize)
            /\ customSize' = <<>>
            /\ toast' = NoToast
       ELSE IF Includes(selectedSizes, Trim(customSize))
            THEN /\ toast' = "Size already added"
                 /\ UNCHANGED << selectedSizes, customSize >>
            ELSE /\ toast' = NoToast
                 /\ UNCHANGED << selectedSizes, customSize >>
    /\ UNCHANGED << wizardVars, checkoutVars, uploadVars, isEditing, form, selectedColors, generatedVariants, customColor >>

\* the handlers of the attribute sets
NextAttr ==
    \/ \E color \in ClickColors : ToggleColor(color)
    \/ \E size \in ClickSizes : ToggleSize(size)
    \/ \E color \in Range(selectedColors) : RemoveCustomColor(color)
    \/ \E size \in Range(selectedSizes) : RemoveCustomSize(size)
    \/ \E text \in ColorTexts : ChangeCustomColor(text)
    \/ \E text \in SizeTexts : ChangeCustomSize(text)
    \/ KeyDownEnterColor
    \/ ClickAddColor
    \/ KeyDownEnterSize
    \/ ClickAddSize

SpecAttr == Init /\ [][NextAttr]_vars

\* --------------------------------------------------------- base fields

\* onChange of the product-name input ({...field})
ChangeName(text) ==
    /\ mounted = "ProductForm"
    /\ form' = [form EXCEPT !.name = text]
    /\ handler' = "changeName"
    /\ staleDropped' = FALSE
    /\ toast' = NoToast
    /\ UNCHANGED << wizardVars, checkoutVars, uploadVars, isEditing, selectedColors, selectedSizes, generatedVariants, customColor, customSize >>

\* onChange of the SKU input ({...field})
ChangeSku(text) ==
    /\ mounted = "ProductForm"
    /\ form' = [form EXCEPT !.sku = text]
    /\ handler' = "changeSku"
    /\ staleDropped' = FALSE
    /\ toast' = NoToast
    /\ UNCHANGED << wizardVars, checkoutVars, uploadVars, isEditing, selectedColors, selectedSizes, generatedVariants, customColor, customSize >>

\* onChange of the selling-price input: field.onChange(parseFloat(value) || 0)
ChangeSellingPrice(number) ==
    /\ mounted = "ProductForm"
    /\ form' = [form EXCEPT !.sellingPrice = IF number # 0 THEN number ELSE 0]
    /\ handler' = "changeSellingPrice"
    /\ staleDropped' = FALSE
    /\ toast' = NoToast
    /\ UNCHANGED << wizardVars, checkoutVars, uploadVars, isEditing, selectedColors, selectedSizes, generatedVariants, customColor, customSize >>

\* ------------------------------------------------------ variant generator

\* form.getValues("sellingPrice") || 0
BasePrice(f) == IF f.sellingPrice # 0 THEN f.sellingPrice ELSE 0

\* a base SKU that takes the name's prefix even when a SKU is set
BaseSkuPrefersName(f) ==
    IF Truthy(f.name) THEN ToUpperCase(Substring(f.name, 0, 3))
    ELSE IF Truthy(f.sku) THEN f.sku
    ELSE << "P", "R", "D" >>

\* form.getValues("sku") || (name ? name.substring(0, 3).toUpperCase() : "PRD")
BaseSku(f) ==
    IF Truthy(f.sku) THEN f.sku
    ELSE IF Truthy(f.name) THEN ToUpperCase(Substring(f.name, 0, 3))
    ELSE << "P", "R", "D" >>

\* `${baseSku}-${color.substring(0, 1)}${size}`
VariantSku(baseSku, color, size) ==
    baseSku \o << "-" >> \o Substring(color, 0, 1) \o size

\* amounts of a variant, in tenths of a currency unit
Tenths(price) == 10 * price
Mrp(price) == 12 * price
PurchasePrice(price) == 7 * price

\* the variant object literal
NewVariant(id, color, size, basePrice, baseSku) ==
    [ id |-> id,
      color |-> color,
      size |-> size,
      sku |-> VariantSku(baseSku, color, size),
      sellingPrice |-> Tenths(basePrice),
      mrp |-> Mrp(basePrice),
      purchasePrice |-> PurchasePrice(basePrice),
      gst |-> 18,
      inventoryQuantity |-> 10,
      images |-> <<>>,
      imageUrl |-> Null ]

\* for (const size of selectedSizes) { ...; variants.push(variant) }
\* ids[k] is the value Math.random() yields for the k-th record pushed
RECURSIVE SizeLoop(_, _, _, _, _, _)
SizeLoop(variants, color, sizes, basePrice, baseSku, ids) ==
    IF sizes = <<>> THEN variants
    ELSE SizeLoop(
           Append(variants,
                  NewVariant(ids[Len(variants) + 1], color, Head(sizes), basePrice, baseSku)),
           color, Tail(sizes), basePrice, baseSku, ids)

\* for (const color of selectedColors) { for (const size of selectedSizes) ... }
RECURSIVE ColorLoop(_, _, _, _, _, _)
ColorLoop(variants, colors, sizes, basePrice, baseSku, ids) ==
    IF colors = <<>> THEN variants
    ELSE ColorLoop(
           SizeLoop(variants, Head(colors), sizes, basePrice, baseSku, ids),
           Tail(colors), sizes, basePrice, baseSku, ids)

\* a generator whose loops are nested the other way round (sizes outside)
GenerateVariantsSizeMajor(colors, sizes, f, ids) ==
    [ k \in 1..(Len(colors) * Len(sizes)) |->
        NewVariant(ids[k],
                   colors[((k - 1) % Len(colors)) + 1],
                   sizes[((k - 1) \div Len(colors)) + 1],
                   BasePrice(f), BaseSku(f)) ]

\* a generator that pushes onto the collection already held (a merge)
GenerateVariantsMerged(colors, sizes, f, ids) ==
    ColorLoop(generatedVariants, colors, sizes, BasePrice(f), BaseSku(f),
              [ k \in 1..(Len(generatedVariants) + Len(colors) * Len(sizes)) |->
                  ids[((k - 1) % (Len(colors) * Len(sizes))) + 1] ])

\* a generator whose outer loop reads colors[0] on every pass
GenerateVariantsFirstColorOnly(colors, sizes, f, ids) ==
    ColorLoop(<<>>, [i \in 1..Len(colors) |-> colors[1]], sizes, BasePrice(f), BaseSku(f), ids)

\* the array the Generate handler hands to setGeneratedVariants
GenerateVariants(colors, sizes, f, ids) ==
    ColorLoop(<<>>, colors, sizes, BasePrice(f), BaseSku(f), ids)

\* a Generate handler that resets the collection before it checks the selection
GenerateResetsFirst ==
    /\ mounted = "ProductForm"
    /\ VariantControlsRendered
    /\ handler' = "generate"
    /\ IF Len(selectedColors) = 0 \/ Len(selectedSizes) = 0
       THEN /\ toast' = "Cannot generate variants"
            /\ staleDropped' = FALSE
            /\ generatedVariants' = <<>>
       ELSE /\ \E ids \in [1..(Len(selectedColors) * Len(selectedSizes)) -> IdValues] :
                  generatedVariants' = GenerateVariants(selectedColors, selectedSizes, form, ids)
            /\ toast' = "Variants generated"
            /\ staleDropped' = FALSE
    /\ UNCHANGED << wizardVars, checkoutVars, uploadVars, isEditing, form, selectedColors, selectedSizes, customColor, customSize >>

\* onClick of Generate Variant Matrix
Generate ==
    /\ mounted = "ProductForm"
    /\ VariantControlsRendered
    /\ handler' = "generate"
    /\ IF Len(selectedColors) = 0 \/ Len(selectedSizes) = 0
       THEN /\ toast' = "Cannot generate variants"
            /\ staleDropped' = FALSE
            /\ UNCHANGED generatedVariants
       ELSE /\ \E ids \in [1..(Len(selectedColors) * Len(selectedSizes)) -> IdValues] :
                  generatedVariants' = GenerateVariants(selectedColors, selectedSizes, form, ids)
            /\ toast' = "Variants generated"
            /\ staleDropped' =
                  \E k \in 1..Len(generatedVariants) :
                      ~(/\ Includes(selectedColors, generatedVariants[k].color)
                        /\ Includes(selectedSizes, generatedVariants[k].size))
    /\ UNCHANGED << wizardVars, checkoutVars, uploadVars, isEditing, form, selectedColors, selectedSizes, customColor, customSize >>

\* generatedVariants.filter(v => v.id !== id)
RemoveById(variants, id) == SelectSeq(variants, LAMBDA v : v.id # id)

\* onClick of the remove button in the row of `variant`
RemoveVariant(variant) ==
    /\ mounted = "ProductForm"
    /\ VariantControlsRendered
    /\ Includes(generatedVariants, variant)
    /\ generatedVariants' = RemoveById(generatedVariants, variant.id)
    /\ handler' = "removeVariant"
    /\ staleDropped' = FALSE
    /\ toast' = "Variant removed"
    /\ UNCHANGED << wizardVars, checkoutVars, uploadVars, isEditing, form, selectedColors, selectedSizes, customColor, customSize >>

\* onClick of Clear All, rendered while the collection is not empty
ClearAll ==
    /\ mounted = "ProductForm"
    /\ VariantControlsRendered
    /\ Len(generatedVariants) > 0
    /\ generatedVariants' = <<>>
    /\ handler' = "clearAll"
    /\ staleDropped' = FALSE
    /\ toast' = NoToast
    /\ UNCHANGED << wizardVars, checkoutVars, uploadVars, isEditing, form, selectedColors, selectedSizes, customColor, customSize >>

\* the size badges clicked where the matrix is generated
MatrixSizes == { SizeS, SizeM }

\* the id drawn where only the shape of the matrix is looked at
MatrixIds == { "k3x9q2a" }

\* the variant matrix: the badges, Generate and Clear All.  The ids do not bear on
\* the shape of the matrix, so every draw gives the same value here; NextIds
\* draws them freely.
NextGen ==
    \/ \E color \in ClickColors : ToggleColor(color)
    \/ \E size \in MatrixSizes : ToggleSize(size)
    \/ Generate /\ \A k \in 1..Len(generatedVariants') : generatedVariants'[k].id \in MatrixIds
    \/ ClearAll

SpecGen == Init /\ [][NextGen]_vars

\* the rows of the variant table and their identifiers
NextIds ==
    \/ \E color \in { Red, Blue } : ToggleColor(color)
    \/ \E size \in MatrixSizes : ToggleSize(size)
    \/ Generate
    \/ \E variant \in Range(generatedVariants) : RemoveVariant(variant)
    \/ ClearAll

SpecIds == Init /\ [][NextIds]_vars

\* the base fields the generator reads
NextBase ==
    \/ \E color \in { Red, Blue } : ToggleColor(color)
    \/ \E size \in { SizeM } : ToggleSize(size)
    \/ \E text \in NameTexts : ChangeName(text)
    \/ \E text \in SkuTexts : ChangeSku(text)
    \/ \E number \in PriceInputs : ChangeSellingPrice(number)
    \/ Generate

SpecBase == Init /\ [][NextBase]_vars

\* the custom-color input next to the badges, Generate and the table rows
NextPairs ==
    \/ \E color \in { Red } : ToggleColor(color)
    \/ \E text \in ColorTexts : ChangeCustomColor(text)
    \/ KeyDownEnterColor
    \/ ClickAddColor
    \/ \E color \in Range(selectedColors) \ Range(PredefinedColors) : RemoveCustomColor(color)
    \/ \E size \in MatrixSizes : ToggleSize(size)
    \/ Generate
    \/ \E variant \in Range(generatedVariants) : RemoveVariant(variant)

SpecPairs == Init /\ [][NextPairs]_vars

\* the whole tab
Next ==
    \/ NextAttr
    \/ \E text \in NameTexts : ChangeName(text)
    \/ \E text \in SkuTexts : ChangeSku(text)
    \/ \E number \in PriceInputs : ChangeSellingPrice(number)
    \/ Generate
    \/ \E variant \in Range(generatedVariants) : RemoveVariant(variant)
    \/ ClearAll

Spec == Init /\ [][Next]_vars

\* ------------------------------------------------------------- form tabs

\* the state of the Variants tab and the base fields
variantVars ==
    << isEditing, form, selectedColors, selectedSizes, generatedVariants,
       customColor, customSize >>

\* Tabs onValueChange={setActiveTab}: a click on a tab trigger
SelectTab(tab) ==
    /\ mounted = "ProductForm"
    /\ activeTab' = tab
    /\ handler' = "selectTab"
    /\ staleDropped' = FALSE
    /\ toast' = NoToast
    /\ UNCHANGED << variantVars, mounted, isSubmitting, activeSection, productRequests, checkoutVars, uploadVars >>

\* onClick of the Next button in the content of the active tab
ClickNextTab ==
    /\ mounted = "ProductForm"
    /\ activeTab \in DOMAIN NextTab
    /\ activeTab' = NextTab[activeTab]
    /\ handler' = "nextTab"
    /\ staleDropped' = FALSE
    /\ toast' = NoToast
    /\ UNCHANGED << variantVars, mounted, isSubmitting, activeSection, productRequests, checkoutVars, uploadVars >>

\* onClick of the Previous button in the content of the active tab
ClickPreviousTab ==
    /\ mounted = "ProductForm"
    /\ activeTab \in DOMAIN PreviousTab
    /\ activeTab' = PreviousTab[activeTab]
    /\ handler' = "previousTab"
    /\ staleDropped' = FALSE
    /\ toast' = NoToast
    /\ UNCHANGED << variantVars, mounted, isSubmitting, activeSection, productRequests, checkoutVars, uploadVars >>

\* ------------------------------------------------------------ product save

\* productFormSchema on the modelled fields: name min(1), sellingPrice min(0)
ProductFormValid(f) == Len(f.name) >= 1 /\ f.sellingPrice >= 0

\* a payload that always claims variants and always has the field
ProductDataAlwaysVariants(f, variants) ==
    [ values |-> f, hasVariants |-> TRUE, variants |-> variants ]

\* onSubmit: productData; `variants: undefined` is an absent field
ProductData(f, variants) ==
    IF Len(variants) > 0
    THEN [ values |-> f, hasVariants |-> TRUE, variants |-> variants ]
    ELSE [ values |-> f, hasVariants |-> FALSE ]

\* form.handleSubmit(callback): the callback runs when the values pass the schema.
\* `section` is the name a Save button hands to setActiveSection (NoSection for the
\* plain onSubmit).  The onSubmit that runs is the one of the current render, so the
\* activeSection it reads later is the value from before this click.
HandleSubmit(section) ==
    IF ProductFormValid(form)
    THEN /\ activeSection' = IF section = NoSection THEN activeSection ELSE section
         /\ isSubmitting' = TRUE
         /\ productRequests' =
               Append(productRequests,
                      [ method |-> IF isEditing THEN "PUT" ELSE "POST",
                        productData |-> ProductData(form, generatedVariants),
                        activeSection |-> activeSection ])
    ELSE UNCHANGED << activeSection, isSubmitting, productRequests >>

\* onClick of the Save button of a section (disabled={isSubmitting})
ClickSave(section) ==
    /\ mounted = "ProductForm"
    /\ Len(productRequests) < MaxInFlight
    /\ activeTab = SectionTab[section]
    /\ ~isSubmitting
    /\ HandleSubmit(SectionName[section])
    /\ handler' = "save"
    /\ staleDropped' = FALSE
    /\ toast' = NoToast
    /\ UNCHANGED << variantVars, mounted, activeTab, checkoutVars, uploadVars >>

\* the Save Product button (type="submit", disabled={isSubmitting}) of the Variants
\* tab; Enter in a blank custom-label input activates the same default button
ClickSaveProduct ==
    /\ mounted = "ProductForm"
    /\ Len(productRequests) < MaxInFlight
    /\ activeTab = "variants"
    /\ ~isSubmitting
    /\ HandleSubmit(NoSection)
    /\ handler' = "saveProduct"
    /\ staleDropped' = FALSE
    /\ toast' = NoToast
    /\ UNCHANGED << variantVars, mounted, activeTab, checkoutVars, uploadVars >>

\* Enter in the name input.  The content of the Basic tab holds no submit button and
\* the name input is its only text input, so the browser submits the form:
\* <form onSubmit={form.handleSubmit(onSubmit)}>
PressEnterInName ==
    /\ mounted = "ProductForm"
    /\ Len(productRequests) < MaxInFlight
    /\ activeTab = "basic"
    /\ HandleSubmit(NoSection)
    /\ handler' = "submitForm"
    /\ staleDropped' = FALSE
    /\ toast' = NoToast
    /\ UNCHANGED << variantVars, mounted, activeTab, checkoutVars, uploadVars >>

\* the title of the toast onSubmit raises after the awaited mutation
SavedTitle(request) ==
    IF request.activeSection # NoSection
    THEN request.activeSection \o " saved"
    ELSE IF request.method = "PUT" THEN "Product updated" ELSE "Product created"

\* the response of the k-th request in flight arrives and it succeeded: the mutation's onSuccess toast,
\* then the rest of onSubmit's try block and its finally.  toast is the title of
\* the last toast raised.
SaveSucceeded(k) ==
    /\ mounted = "ProductForm"
    /\ k \in 1..Len(productRequests)
    /\ toast' =
          IF /\ productRequests[k].activeSection = SectionName.VariantsAndAttributes
             /\ productRequests[k].productData.hasVariants
          THEN "Variants saved"
          ELSE SavedTitle(productRequests[k])
    /\ activeSection' = NoSection
    /\ isSubmitting' = FALSE
    /\ productRequests' = DeleteAt(productRequests, k)
    /\ handler' = "saveSucceeded"
    /\ staleDropped' = FALSE
    /\ UNCHANGED << variantVars, mounted, activeTab, checkoutVars, uploadVars >>

\* the response of the k-th request in flight arrives and it failed: the mutation's onError toast, then
\* onSubmit's catch block and its finally
SaveFailed(k) ==
    /\ mounted = "ProductForm"
    /\ k \in 1..Len(productRequests)
    /\ toast' = "Error"
    /\ isSubmitting' = FALSE
    /\ productRequests' = DeleteAt(productRequests, k)
    /\ handler' = "saveFailed"
    /\ staleDropped' = FALSE
    /\ UNCHANGED << variantVars, mounted, activeTab, activeSection, checkoutVars, uploadVars >>

\* ---------------------------------------------------------------- checkout

\* all the state of the product form
productVars == << variantVars, wizardVars >>

isAuthenticated == user = "customer"

\* the session query settles: a guest (null) or a signed-in customer
SessionQuerySettles(result) ==
    /\ mounted = "CheckoutForm"
    /\ user = "loading"
    /\ user' = result
    /\ handler' = "sessionQuery"
    /\ staleDropped' = FALSE
    /\ toast' = NoToast
    /\ UNCHANGED << productVars, uploadVars, validation, step, addressTab, selectedAddress, checkoutForm, orderRequest >>

\* Tabs onValueChange of the shipping step, rendered for a signed-in customer
SetAddressTab(value) ==
    /\ mounted = "CheckoutForm"
    /\ step = "shipping"
    /\ isAuthenticated
    /\ addressTab' = value
    /\ handler' = "setAddressTab"
    /\ staleDropped' = FALSE
    /\ toast' = NoToast
    /\ UNCHANGED << productVars, uploadVars, validation, step, selectedAddress, user, checkoutForm, orderRequest >>

\* the shippingAddress value the effect writes for a saved address
AddressValues(address) ==
    [ addressLine1 |-> address.addressLine1,
      addressLine2 |-> IF Truthy(address.addressLine2) THEN address.addressLine2 ELSE <<>>,
      city |-> address.city,
      state |-> address.state,
      postalCode |-> address.postalCode,
      country |-> address.country ]

\* AddressList onAddressSelect={setSelectedAddress}, then the effect on
\* [selectedAddress, form], which runs when the selected address changed
SelectAddress(address) ==
    /\ mounted = "CheckoutForm"
    /\ step = "shipping"
    /\ isAuthenticated
    /\ addressTab = "saved"
    /\ selectedAddress' = address
    /\ IF address # selectedAddress
       THEN checkoutForm' =
               [ checkoutForm EXCEPT !.shippingAddressId = address.id,
                                     !.shippingAddress = AddressValues(address) ]
       ELSE UNCHANGED checkoutForm
    /\ handler' = "selectAddress"
    /\ staleDropped' = FALSE
    /\ toast' = NoToast
    /\ UNCHANGED << productVars, uploadVars, validation, step, addressTab, user, orderRequest >>

\* onChange of an address input: the New Address tab of a signed-in customer, or
\* the plain fields otherwise
ChangeShippingField(field, text) ==
    /\ mounted = "CheckoutForm"
    /\ step = "shipping"
    /\ ~isAuthenticated \/ addressTab = "new"
    /\ checkoutForm' = [ checkoutForm EXCEPT !.shippingAddress[field] = text ]
    /\ handler' = "changeShippingField"
    /\ staleDropped' = FALSE
    /\ toast' = NoToast
    /\ UNCHANGED << productVars, uploadVars, validation, step, addressTab, selectedAddress, user, orderRequest >>

\* RadioGroup onValueChange={field.onChange} of the payment step
SelectPaymentMethod(method) ==
    /\ mounted = "CheckoutForm"
    /\ step = "payment"
    /\ checkoutForm' = [ checkoutForm EXCEPT !.paymentMethod = method ]
    /\ handler' = "selectPaymentMethod"
    /\ staleDropped' = FALSE
    /\ toast' = NoToast
    /\ UNCHANGED << productVars, uploadVars, validation, step, addressTab, selectedAddress, user, orderRequest >>

\* onChange of the notes textarea of the payment step
ChangeNotes(text) ==
    /\ mounted = "CheckoutForm"
    /\ step = "payment"
    /\ checkoutForm' = [ checkoutForm EXCEPT !.notes = text ]
    /\ handler' = "changeNotes"
    /\ staleDropped' = FALSE
    /\ toast' = NoToast
    /\ UNCHANGED << productVars, uploadVars, validation, step, addressTab, selectedAddress, user, orderRequest >>

\* checkoutFormSchema, shippingAddress: every field but addressLine2 is min(1)
ShippingAddressValid(values) ==
    \A field \in RequiredShippingFields : Len(values.shippingAddress[field]) >= 1

\* checkoutFormSchema, paymentMethod: one of the enum's values
PaymentMethodValid(values) == values.paymentMethod \in PaymentMethods

\* a trigger that reports every field group valid
TriggerAlwaysValid(name, values) == TRUE

\* form.trigger(name): the verdict of the schema on one field group
Trigger(name, values) ==
    IF name = "shippingAddress" THEN ShippingAddressValid(values) ELSE PaymentMethodValid(values)

\* a Next handler that leaves the shipping step for the review step
HandleNextStepSkipsPayment ==
    /\ mounted = "CheckoutForm"
    /\ step' =
          IF step = "shipping"
          THEN IF Trigger("shippingAddress", checkoutForm) THEN "review" ELSE step
          ELSE IF step = "payment"
               THEN IF Trigger("paymentMethod", checkoutForm) THEN "review" ELSE step
               ELSE step
    /\ handler' = "handleNextStep"
    /\ staleDropped' = FALSE
    /\ toast' = NoToast
    /\ UNCHANGED << productVars, uploadVars, validation, addressTab, selectedAddress, user, checkoutForm, orderRequest >>

\* a Next handler that places the order when it runs on the review step
HandleNextStepPlacesOrder ==
    /\ mounted = "CheckoutForm"
    /\ step' =
          IF step = "shipping"
          THEN IF Trigger("shippingAddress", checkoutForm) THEN "payment" ELSE step
          ELSE IF step = "payment"
               THEN IF Trigger("paymentMethod", checkoutForm) THEN "review" ELSE step
               ELSE step
    /\ orderRequest' =
          IF step = "review" /\ ~orderRequest.pending
          THEN [ pending |-> TRUE, data |-> checkoutForm ]
          ELSE orderRequest
    /\ handler' = "handleNextStep"
    /\ staleDropped' = FALSE
    /\ toast' = NoToast
    /\ UNCHANGED << productVars, uploadVars, validation, addressTab, selectedAddress, user, checkoutForm >>

\* handleNextStep
HandleNextStep ==
    /\ mounted = "CheckoutForm"
    /\ step' =
          IF step = "shipping"
          THEN IF Trigger("shippingAddress", checkoutForm) THEN "payment" ELSE step
          ELSE IF step = "payment"
               THEN IF Trigger("paymentMethod", checkoutForm) THEN "review" ELSE step
               ELSE step
    /\ handler' = "handleNextStep"
    /\ staleDropped' = FALSE
    /\ toast' = NoToast
    /\ UNCHANGED << productVars, uploadVars, validation, addressTab, selectedAddress, user, checkoutForm, orderRequest >>

\* a Back handler that also resets the form to its default values
HandlePreviousStepResetsForm ==
    /\ mounted = "CheckoutForm"
    /\ step' =
          IF step = "payment" THEN "shipping"
          ELSE IF step = "review" THEN "payment"
          ELSE step
    /\ checkoutForm' = CheckoutDefaultValues
    /\ handler' = "handlePreviousStep"
    /\ staleDropped' = FALSE
    /\ toast' = NoToast
    /\ UNCHANGED << productVars, uploadVars, validation, addressTab, selectedAddress, user, orderRequest >>

\* handlePreviousStep
HandlePreviousStep ==
    /\ mounted = "CheckoutForm"
    /\ step' =
          IF step = "payment" THEN "shipping"
          ELSE IF step = "review" THEN "payment"
          ELSE step
    /\ handler' = "handlePreviousStep"
    /\ staleDropped' = FALSE
    /\ toast' = NoToast
    /\ UNCHANGED << productVars, uploadVars, validation, addressTab, selectedAddress, user, checkoutForm, orderRequest >>

\* Change buttons rendered on every step
ClickChangeOnEveryStep(target) ==
    /\ mounted = "CheckoutForm"
    /\ step' = target
    /\ handler' = "change"
    /\ staleDropped' = FALSE
    /\ toast' = NoToast
    /\ UNCHANGED << productVars, uploadVars, validation, addressTab, selectedAddress, user, checkoutForm, orderRequest >>

\* onClick of a Change button of the review step: setStep(target)
ClickChange(target) ==
    /\ mounted = "CheckoutForm"
    /\ step = "review"
    /\ step' = target
    /\ handler' = "change"
    /\ staleDropped' = FALSE
    /\ toast' = NoToast
    /\ UNCHANGED << productVars, uploadVars, validation, addressTab, selectedAddress, user, checkoutForm, orderRequest >>

\* the Shipping Address block of the review step: the selected saved address when
\* there is one, the values of the form otherwise; the second line is shown when
\* it is not empty
ReviewAddress ==
    IF selectedAddress # NoAddress
    THEN AddressValues(selectedAddress)
    ELSE AddressValues(checkoutForm.shippingAddress)

\* the steps the two Change buttons name
ChangeTargets == { "shipping", "payment" }

\* checkoutFormSchema on the whole form
CheckoutFormValid(values) == ShippingAddressValid(values) /\ PaymentMethodValid(values)

\* the Place Order button of the review step (type="submit",
\* disabled={checkout.isPending}): form.handleSubmit(onSubmit), checkout.mutate(values)
PlaceOrder ==
    /\ mounted = "CheckoutForm"
    /\ step = "review"
    /\ ~orderRequest.pending
    /\ orderRequest' =
          IF CheckoutFormValid(checkoutForm)
          THEN [ pending |-> TRUE, data |-> checkoutForm ]
          ELSE orderRequest
    /\ handler' = "placeOrder"
    /\ staleDropped' = FALSE
    /\ toast' = NoToast
    /\ UNCHANGED << productVars, uploadVars, validation, step, addressTab, selectedAddress, user, checkoutForm >>

\* the response arrives and the order was placed: checkout.onSuccess
OrderPlaced ==
    /\ mounted = "CheckoutForm"
    /\ orderRequest.pending
    /\ orderRequest' = NoRequest
    /\ toast' = "Order placed successfully"
    /\ handler' = "orderPlaced"
    /\ staleDropped' = FALSE
    /\ UNCHANGED << productVars, uploadVars, validation, step, addressTab, selectedAddress, user, checkoutForm >>

\* the response arrives and the request failed: checkout.onError
OrderFailed ==
    /\ mounted = "CheckoutForm"
    /\ orderRequest.pending
    /\ orderRequest' = NoRequest
    /\ toast' = "Error"
    /\ handler' = "orderFailed"
    /\ staleDropped' = FALSE
    /\ UNCHANGED << productVars, uploadVars, validation, step, addressTab, selectedAddress, user, checkoutForm >>

\* ------------------------------------------------- the awaited validation

\* events dispatched while a continuation of handleNextStep is queued
EventLoopAlwaysReady == TRUE

\* The event loop dispatches the next event when the microtask queue is empty.
\* `await form.trigger(...)` settles through resolved promises over the in-memory
\* values (no timer, no request), so the rest of handleNextStep is a microtask: it
\* runs before any other event handler.
EventLoopReady == ~validation.pending

\* handleNextStep up to its await: the `step` of the render the handler belongs to,
\* and the verdict form.trigger computes on the values it is called with
ClickNext ==
    /\ mounted = "CheckoutForm"
    /\ validation' =
          IF step = "shipping"
          THEN [ pending |-> TRUE, step |-> step,
                 isValid |-> Trigger("shippingAddress", checkoutForm) ]
          ELSE IF step = "payment"
               THEN [ pending |-> TRUE, step |-> step,
                      isValid |-> Trigger("paymentMethod", checkoutForm) ]
               ELSE validation
    /\ handler' = "handleNextStep"
    /\ staleDropped' = FALSE
    /\ toast' = NoToast
    /\ UNCHANGED << productVars, uploadVars, step, addressTab, selectedAddress, user, checkoutForm, orderRequest >>

\* handleNextStep after its await: setStep with the step after the one the handler
\* was started on, when the verdict is true
NextStepResumes ==
    /\ mounted = "CheckoutForm"
    /\ validation.pending
    /\ step' =
          IF validation.isValid
          THEN IF validation.step = "shipping" THEN "payment" ELSE "review"
          ELSE step
    /\ validation' = NoValidation
    /\ handler' = "handleNextStep.resume"
    /\ staleDropped' = FALSE
    /\ toast' = NoToast
    /\ UNCHANGED << productVars, uploadVars, addressTab, selectedAddress, user, checkoutForm, orderRequest >>

\* the shipping step with the validation of handleNextStep as an awaited call:
\* the session, the address tabs, the saved address, the address inputs, the
\* Next, Back and Change buttons
NextAdvance ==
    \/ EventLoopReady /\ \E result \in { "guest", "customer" } : SessionQuerySettles(result)
    \/ EventLoopReady /\ \E value \in { "saved", "new" } : SetAddressTab(value)
    \/ EventLoopReady /\ \E address \in SavedAddresses : SelectAddress(address)
    \/ EventLoopReady /\ \E field \in ShippingFields : \E text \in AddressTexts[field] :
          ChangeShippingField(field, text)
    \/ EventLoopReady /\ ClickNext
    \/ NextStepResumes
    \/ EventLoopReady /\ HandlePreviousStep
    \/ EventLoopReady /\ \E target \in ChangeTargets : ClickChange(target)

SpecAdvance == Init /\ [][NextAdvance]_vars

\* ------------------------------------------------------------ file upload

\* all the state of the two forms
formVars == << productVars, checkoutVars >>

\* a size check that lets every file through
OversizedNever(file) == FALSE

\* file.size > maxSizeMB * 1024 * 1024
Oversized(file) == file.size > MaxFileSize

\* file.type.startsWith('image/')
IsImage(file) == StartsWith(file.type, ImagePrefix)

HasImage(files) == \E k \in 1..Len(files) : IsImage(files[k])

\* fileArray.find(file => file.type.startsWith('image/')), when there is one
FirstImage(files) ==
    files[CHOOSE k \in 1..Len(files) :
              IsImage(files[k]) /\ \A j \in 1..(k - 1) : ~IsImage(files[j])]

\* The hidden file input is clicked by the dashed button, rendered while nothing is
\* selected, and by the Change button (disabled={uploadMutation.isPending}).
PickerAvailable ==
    \/ selectedFile = NoFile /\ selectedFiles = <<>>
    \/ ~(uploadRequest.pending /\ uploadRequest.mutation = "upload")

\* the end of handleFileChange, after the selection was stored: a read of the first
\* image is started when there is one and showPreview is set; the preview is
\* cleared otherwise
StartPreview(files) ==
    IF HasImage(files) /\ showPreview
    THEN reads' = Append(reads, FirstImage(files)) /\ UNCHANGED previewUrl
    ELSE previewUrl' = NoPreview /\ UNCHANGED reads

\* onChange of the file input: the picker handed over `files`
HandleFileChange(files) ==
    /\ mounted = "S3FileUpload"
    /\ PickerAvailable
    /\ Len(reads) < MaxReads
    /\ inputFiles' = files
    /\ handler' = "handleFileChange"
    /\ staleDropped' = FALSE
    /\ IF Len(files) = 0
       THEN /\ toast' = NoToast
            /\ UNCHANGED << selectedFile, selectedFiles, previewUrl, reads >>
       ELSE IF multiple
            THEN IF \E k \in 1..Len(files) : Oversized(files[k])
                 THEN /\ toast' = "Files too large"
                      /\ UNCHANGED << selectedFile, selectedFiles, previewUrl, reads >>
                 ELSE /\ toast' = NoToast
                      /\ selectedFiles' = files
                      /\ StartPreview(files)
                      /\ UNCHANGED selectedFile
            ELSE IF Oversized(files[1])
                 THEN /\ toast' = "File too large"
                      /\ UNCHANGED << selectedFile, selectedFiles, previewUrl, reads >>
                 ELSE /\ toast' = NoToast
                      /\ selectedFile' = files[1]
                      /\ StartPreview(<< files[1] >>)
                      /\ UNCHANGED selectedFiles
    /\ UNCHANGED << formVars, multiple, showPreview, uploadRequest >>

\* reader.result when the read ends: the data URL, or null after a failed read
ReadResults(file) == { DataUrl(file), NoPreview }

\* reader.onloadend of the k-th read in progress: setPreviewUrl(reader.result)
ReadEnds(k, result) ==
    /\ mounted = "S3FileUpload"
    /\ k \in 1..Len(reads)
    /\ result \in ReadResults(reads[k])
    /\ previewUrl' = result
    /\ reads' = DeleteAt(reads, k)
    /\ handler' = "onloadend"
    /\ staleDropped' = FALSE
    /\ toast' = NoToast
    /\ UNCHANGED << formVars, multiple, showPreview, selectedFile, selectedFiles, inputFiles, uploadRequest >>

\* clearSelection: the X button of the selection panel
ClearSelection ==
    /\ mounted = "S3FileUpload"
    /\ selectedFile # NoFile \/ selectedFiles # <<>>
    /\ selectedFile' = NoFile
    /\ selectedFiles' = <<>>
    /\ previewUrl' = NoPreview
    /\ inputFiles' = <<>>
    /\ handler' = "clearSelection"
    /\ staleDropped' = FALSE
    /\ toast' = NoToast
    /\ UNCHANGED << formVars, multiple, showPreview, reads, uploadRequest >>

\* handleUpload: the Upload button of the selection panel
\* (disabled={uploadMutation.isPending || multipleUploadMutation.isPending})
HandleUpload ==
    /\ mounted = "S3FileUpload"
    /\ selectedFile # NoFile \/ selectedFiles # <<>>
    /\ ~uploadRequest.pending
    /\ uploadRequest' =
          IF multiple /\ Len(selectedFiles) > 0
          THEN [ pending |-> TRUE, mutation |-> "multipleUpload", files |-> selectedFiles ]
          ELSE IF selectedFile # NoFile
               THEN [ pending |-> TRUE, mutation |-> "upload", files |-> << selectedFile >> ]
               ELSE uploadRequest
    /\ handler' = "handleUpload"
    /\ staleDropped' = FALSE
    /\ toast' = NoToast
    /\ UNCHANGED << formVars, multiple, showPreview, selectedFile, selectedFiles, previewUrl, inputFiles, reads >>

\* the response arrives and the upload succeeded: onSuccess of the mutation that
\* sent it; multipleUploadMutation also clears the selection
UploadSucceeded ==
    /\ mounted = "S3FileUpload"
    /\ uploadRequest.pending
    /\ uploadRequest' = NoRequest
    /\ IF uploadRequest.mutation = "multipleUpload"
       THEN /\ selectedFiles' = <<>>
            /\ selectedFile' = NoFile
            /\ previewUrl' = NoPreview
            /\ inputFiles' = <<>>
       ELSE UNCHANGED << selectedFile, selectedFiles, previewUrl, inputFiles >>
    /\ handler' = "uploadSucceeded"
    /\ staleDropped' = FALSE
    /\ toast' = "Upload successful"
    /\ UNCHANGED << formVars, multiple, showPreview, reads >>

\* the response arrives and the upload failed: onError of the mutation that sent it
UploadFailed ==
    /\ mounted = "S3FileUpload"
    /\ uploadRequest.pending
    /\ uploadRequest' = NoRequest
    /\ handler' = "uploadFailed"
    /\ staleDropped' = FALSE
    /\ toast' = "Upload failed"
    /\ UNCHANGED << formVars, multiple, showPreview, selectedFile, selectedFiles, previewUrl, inputFiles, reads >>

\* the upload widget
NextUpload ==
    \/ \E files \in FileLists(multiple) : HandleFileChange(files)
    \/ \E k \in 1..Len(reads) : \E result \in ReadResults(reads[k]) : ReadEnds(k, result)
    \/ ClearSelection
    \/ HandleUpload
    \/ UploadSucceeded
    \/ UploadFailed

SpecUpload == Init /\ [][NextUpload]_vars

\* ---------------------------------------------------------- the two forms

\* the steps of the two forms: the tabs of the product form; the checkout fields,
\* the saved address and the step buttons
NextSteps ==
    \/ \E tab \in Range(Tabs) : SelectTab(tab)
    \/ ClickNextTab
    \/ ClickPreviousTab
    \/ \E result \in { "guest", "customer" } : SessionQuerySettles(result)
    \/ \E value \in { "saved", "new" } : SetAddressTab(value)
    \/ \E address \in SavedAddresses : SelectAddress(address)
    \/ \E field \in ShippingFields : \E text \in AddressTexts[field] :
          ChangeShippingField(field, text)
    \/ \E method \in EnabledPaymentMethods : SelectPaymentMethod(method)
    \/ \E text \in NoteTexts : ChangeNotes(text)
    \/ HandleNextStep
    \/ HandlePreviousStep
    \/ \E target \in ChangeTargets : ClickChange(target)

SpecSteps == Init /\ [][NextSteps]_vars

\* the name typed where the requests are sent
SubmitNames == { <<>>, << "s", "h", "i", "r", "t" >> }

\* the requests of the two forms: the tabs, the name field, the Save buttons and
\* the responses of the product form; the saved address, the notes, the step
\* buttons, Place Order and the responses of the checkout.  A field is used on
\* the tab that shows it.
NextSubmit ==
    \/ \E tab \in Range(Tabs) : SelectTab(tab)
    \/ ClickNextTab
    \/ ClickPreviousTab
    \/ activeTab = "basic" /\ \E text \in SubmitNames : ChangeName(text)
    \/ \E section \in Sections : ClickSave(section)
    \/ ClickSaveProduct
    \/ PressEnterInName
    \/ \E k \in 1..Len(productRequests) : SaveSucceeded(k)
    \/ \E k \in 1..Len(productRequests) : SaveFailed(k)
    \/ \E result \in { "guest", "customer" } : SessionQuerySettles(result)
    \/ \E address \in SavedAddresses : SelectAddress(address)
    \/ \E text \in NoteTexts : ChangeNotes(text)
    \/ HandleNextStep
    \/ HandlePreviousStep
    \/ \E target \in ChangeTargets : ClickChange(target)
    \/ PlaceOrder
    \/ OrderPlaced
    \/ OrderFailed

SpecSubmit == Init /\ [][NextSubmit]_vars

\* the tabs and the sections used while a request is pending
PendingTabs == { "basic", "variants" }
PendingSections == { "VariantsAndAttributes" }

\* what a user can do while a request is pending: in the product form the tabs, the
\* name field, a color and a size badge, Generate and Clear All around the Save
\* buttons of the Variants tab; in the checkout the step buttons and the notes
\* around Place Order.  A field or a badge is used on the tab that shows it.
NextPending ==
    \/ \E tab \in PendingTabs : SelectTab(tab)
    \/ activeTab = "basic" /\ \E text \in SubmitNames : ChangeName(text)
    \/ activeTab = "variants" /\ ToggleColor(Red)
    \/ activeTab = "variants" /\ ToggleSize(SizeS)
    \/ activeTab = "variants" /\ Generate
    \/ activeTab = "variants" /\ ClearAll
    \/ \E section \in PendingSections : ClickSave(section)
    \/ ClickSaveProduct
    \/ \E k \in 1..Len(productRequests) : SaveSucceeded(k)
    \/ \E k \in 1..Len(productRequests) : SaveFailed(k)
    \/ \E result \in { "customer" } : SessionQuerySettles(result)
    \/ \E address \in SavedAddresses : SelectAddress(address)
    \/ \E text \in NoteTexts : ChangeNotes(text)
    \/ HandleNextStep
    \/ HandlePreviousStep
    \/ \E target \in ChangeTargets : ClickChange(target)
    \/ PlaceOrder
    \/ OrderPlaced
    \/ OrderFailed

SpecPending == Init /\ [][NextPending]_vars

\* the custom labels typed where the footprint of the handlers is looked at
FrameColorTexts == { << " ", "T", "e", "a", "l", " " >> }
FrameSizeTexts == { << "X", "S", " " >> }

\* every handler of the Variants tab, with the tab triggers around them: a badge
\* and a typed label per set, Generate, the row remove buttons and Clear All
NextFrame ==
    \/ \E tab \in PendingTabs : SelectTab(tab)
    \/ activeTab = "variants" /\ ToggleColor(Red)
    \/ activeTab = "variants" /\ ToggleSize(SizeS)
    \/ activeTab = "variants" /\ \E text \in FrameColorTexts : ChangeCustomColor(text)
    \/ activeTab = "variants" /\ \E text \in FrameSizeTexts : ChangeCustomSize(text)
    \/ activeTab = "variants" /\ KeyDownEnterColor
    \/ activeTab = "variants" /\ ClickAddColor
    \/ activeTab = "variants" /\ KeyDownEnterSize
    \/ activeTab = "variants" /\ ClickAddSize
    \/ activeTab = "variants" /\
          \E color \in Range(selectedColors) \ Range(PredefinedColors) : RemoveCustomColor(color)
    \/ activeTab = "variants" /\
          \E size \in Range(selectedSizes) \ Range(PredefinedSizes) : RemoveCustomSize(size)
    \/ /\ activeTab = "variants"
       /\ Generate
       /\ \A k \in 1..Len(generatedVariants') : generatedVariants'[k].id \in MatrixIds
    \/ activeTab = "variants" /\ \E variant \in Range(generatedVariants) : RemoveVariant(variant)
    \/ activeTab = "variants" /\ ClearAll

SpecFrame == Init /\ [][NextFrame]_vars

\* ------------------------------------------------------------ properties

\* the last handler was Generate and it replaced the collection
Generated == handler = "generate" /\ toast = "Variants generated"

\* the (color, size) pair of a record
Pair(v) == << v.color, v.size >>

\* C1: right after a successful Generate the collection holds exactly
\* |colors| x |sizes| records in color-major, size-minor order: the record at
\* position i*|sizes|+j (0-based) has color colors[i] and size sizes[j].
C1_ColorMajorMatrix ==
    Generated =>
        /\ Len(generatedVariants) = Len(selectedColors) * Len(selectedSizes)
        /\ \A i \in 0..(Len(selectedColors) - 1) : \A j \in 0..(Len(selectedSizes) - 1) :
              /\ generatedVariants[i * Len(selectedSizes) + j + 1].color = selectedColors[i + 1]
              /\ generatedVariants[i * Len(selectedSizes) + j + 1].size = selectedSizes[j + 1]

\* a 2 x 2 matrix has just been generated
C1_Witness ==
    /\ Generated
    /\ Len(selectedColors) = 2
    /\ Len(selectedSizes) = 2
    /\ Len(generatedVariants) = 4

\* C2: a Generate invoked while the color set or the size set is empty raises
\* "Cannot generate variants" and leaves the collection exactly as it was.
C2_EmptySelectionKeepsCollection ==
    [][ (handler' = "generate" /\ (Len(selectedColors) = 0 \/ Len(selectedSizes) = 0))
          => (toast' = "Cannot generate variants" /\ generatedVariants' = generatedVariants) ]_vars

\* Generate has just failed on an empty set while a generated collection is held
C2_Witness ==
    /\ handler = "generate"
    /\ toast = "Cannot generate variants"
    /\ Len(generatedVariants) > 0
    /\ (Len(selectedColors) = 0 \/ Len(selectedSizes) = 0)

\* C3: right after a successful Generate the collection holds, for every
\* selected color and selected size, exactly one record, and no record with a
\* color or a size that is not selected: nothing of an earlier generation is left.
C3_FullReplace ==
    Generated =>
        /\ \A k \in 1..Len(generatedVariants) :
              /\ Includes(selectedColors, generatedVariants[k].color)
              /\ Includes(selectedSizes, generatedVariants[k].size)
        /\ \A c \in Range(selectedColors) : \A z \in Range(selectedSizes) :
              Cardinality({k \in 1..Len(generatedVariants) :
                              Pair(generatedVariants[k]) = << c, z >>}) = 1

\* a Generate has just replaced a collection that held a deselected color or size
C3_Witness == Generated /\ staleDropped

\* the set after the badge of `label` is clicked twice in a row
ToggledTwice(set, label) == ToggleAttribute(ToggleAttribute(set, label), label)

\* C4: toggling a label twice in a row gives back the set's membership and
\* leaves all other elements in their original relative order, for the color
\* set and the size set and every label a badge can toggle.
C4_ToggleTwiceRestores ==
    /\ \A label \in ClickColors \cup Range(selectedColors) :
          /\ Range(ToggledTwice(selectedColors, label)) = Range(selectedColors)
          /\ FilterOut(ToggledTwice(selectedColors, label), label) = FilterOut(selectedColors, label)
    /\ \A label \in ClickSizes \cup Range(selectedSizes) :
          /\ Range(ToggledTwice(selectedSizes, label)) = Range(selectedSizes)
          /\ FilterOut(ToggledTwice(selectedSizes, label), label) = FilterOut(selectedSizes, label)

\* a badge was just clicked and its label now stands behind another label
C4_Witness ==
    /\ handler = "toggleColor"
    /\ Len(selectedColors) >= 2
    /\ selectedColors[Len(selectedColors)] = Red
    /\ selectedColors[1] # Red

\* C5: on the Enter path and on the Add button path, for colors and for sizes,
\* adding a non-blank text whose trimmed label is not in the set appends that
\* label, and adding a text whose trimmed label is already in the set raises
\* the "already added" toast and leaves the set as it was: the same trimmed
\* label added twice succeeds the first time and fails the second time.
C5_SecondAddIsDuplicate ==
    [][ /\ (handler' \in { "enterColor", "addColor" } /\ Trim(customColor) # <<>>) =>
              IF Includes(selectedColors, Trim(customColor))
              THEN /\ selectedColors' = selectedColors
                   /\ toast' = "Color already added"
              ELSE /\ selectedColors' = Append(selectedColors, Trim(customColor))
                   /\ toast' = NoToast
        /\ (handler' \in { "enterSize", "addSize" } /\ Trim(customSize) # <<>>) =>
              IF Includes(selectedSizes, Trim(customSize))
              THEN /\ selectedSizes' = selectedSizes
                   /\ toast' = "Size already added"
              ELSE /\ selectedSizes' = Append(selectedSizes, Trim(customSize))
                   /\ toast' = NoToast ]_vars

\* a custom label typed with blanks around it was added before and its second
\* add has just been refused
C5_Witness ==
    /\ handler \in { "enterSize", "addSize" }
    /\ toast = "Size already added"
    /\ customSize # Trim(customSize)
    /\ Includes(selectedSizes, Trim(customSize))
    /\ ~Includes(PredefinedSizes, Trim(customSize))

NoDuplicates(s) == \A i, j \in 1..Len(s) : s[i] = s[j] => i = j

\* `new` holds the labels of `old` that are still selected, in their old
\* order, followed by the labels that were not in `old`
InsertionOrderKept(old, new) ==
    LET kept == SelectSeq(old, LAMBDA e : Includes(new, e))
    IN /\ Len(kept) <= Len(new)
       /\ SubSeq(new, 1, Len(kept)) = kept
       /\ \A i \in (Len(kept) + 1)..Len(new) : ~Includes(old, new[i])

\* C6: after every step of the badges, the custom adds and the custom removals,
\* the color set and the size set hold no label twice and are in insertion
\* order: a step keeps the remaining labels in order and puts a new label last.
C6_DuplicateFreeInsertionOrder ==
    [][ /\ NoDuplicates(selectedColors')
        /\ NoDuplicates(selectedSizes')
        /\ InsertionOrderKept(selectedColors, selectedColors')
        /\ InsertionOrderKept(selectedSizes, selectedSizes') ]_vars

\* a set of three labels, a custom one among them, with the first predefined
\* badge selected last
C6_Witness ==
    /\ Len(selectedColors) = 3
    /\ selectedColors[3] = Red
    /\ \E i \in 1..2 : ~Includes(PredefinedColors, selectedColors[i])

\* C7: the remove button of a row deletes exactly one record: the collection
\* shrinks by one, every other record stays in the same order, and removing
\* the same id again changes nothing.
C7_RemoveDeletesExactlyOne ==
    [][ handler' = "removeVariant" =>
          /\ Len(generatedVariants') = Len(generatedVariants) - 1
          /\ \E k \in 1..Len(generatedVariants) :
                /\ generatedVariants' = DeleteAt(generatedVariants, k)
                /\ RemoveById(generatedVariants', generatedVariants[k].id) = generatedVariants' ]_vars

\* C8: no two records of the generated collection share an id, whatever the
\* generator draws.
C8_UniqueIds ==
    \A k, l \in 1..Len(generatedVariants) :
        generatedVariants[k].id = generatedVariants[l].id => k = l

\* the SKU of a record under prefix P
SkuWithPrefix(P, v) == P \o << "-" >> \o << v.color[1] >> \o v.size

\* C9 as claimed: the SKU is P-<first character of the color><size>, where P is
\* the base SKU when one is set, otherwise the 3-character uppercase prefix of
\* the product name, otherwise "PRD".
C9_SkuThreeCharacterPrefix ==
    Generated =>
        \A k \in 1..Len(generatedVariants) :
            LET v == generatedVariants[k]
            IN IF Truthy(form.sku) THEN v.sku = SkuWithPrefix(form.sku, v)
               ELSE IF Truthy(form.name)
                    THEN /\ Len(form.name) >= 3
                         /\ v.sku = SkuWithPrefix([i \in 1..3 |-> UpperChar(form.name[i])], v)
                    ELSE v.sku = SkuWithPrefix(<< "P", "R", "D" >>, v)

\* C9 as amended: P is the base SKU when one is set, otherwise the first three
\* characters of the product name in upper case (the whole name in upper case
\* when it has fewer than three characters), otherwise "PRD".
C9_SkuFormat ==
    Generated =>
        \A k \in 1..Len(generatedVariants) :
            LET v == generatedVariants[k]
            IN IF Truthy(form.sku) THEN v.sku = SkuWithPrefix(form.sku, v)
               ELSE IF Truthy(form.name)
                    THEN v.sku = SkuWithPrefix(
                                   [i \in 1..Min(3, Len(form.name)) |-> UpperChar(form.name[i])], v)
                    ELSE v.sku = SkuWithPrefix(<< "P", "R", "D" >>, v)

\* records have just been generated from a two-character name and no SKU
C9_Witness ==
    /\ Generated
    /\ ~Truthy(form.sku)
    /\ Len(form.name) = 2
    /\ Len(generatedVariants) = 2

\* C10: every generated record has the base selling price, 1.2 times it as
\* mrp, 0.7 times it as purchase price, gst 18 and inventory 10, and none of
\* the three prices is negative (amounts in tenths).
C10_DefaultPricing ==
    Generated =>
        \A k \in 1..Len(generatedVariants) :
            LET v == generatedVariants[k]
            IN /\ v.sellingPrice = 10 * form.sellingPrice
               /\ 10 * v.mrp = 12 * v.sellingPrice
               /\ 10 * v.purchasePrice = 7 * v.sellingPrice
               /\ v.gst = 18
               /\ v.inventoryQuantity = 10
               /\ v.sellingPrice >= 0
               /\ v.mrp >= 0
               /\ v.purchasePrice >= 0

\* C11: right after a successful Generate the collection holds
\* |colors| x |sizes| records; any other step that shrinks the collection is
\* a row removal, which shrinks it by exactly one, or Clear All, which
\* empties it.
C11_CollectionSize ==
    [][ /\ (handler' = "generate" /\ toast' = "Variants generated") =>
              Len(generatedVariants') = Len(selectedColors') * Len(selectedSizes')
        /\ (handler' # "generate" /\ Len(generatedVariants') < Len(generatedVariants)) =>
              \/ /\ handler' = "removeVariant"
                 /\ Len(generatedVariants') = Len(generatedVariants) - 1
              \/ /\ handler' = "clearAll"
                 /\ Len(generatedVariants') = 0 ]_vars

\* C12: no two records of the generated collection carry the same
\* (color, size) pair.
C12_UniquePairs ==
    \A k, l \in 1..Len(generatedVariants) :
        Pair(generatedVariants[k]) = Pair(generatedVariants[l]) => k = l

\* a row was removed from a matrix generated with a custom color, and rows
\* of two colors remain
C12_Witness ==
    /\ handler = "removeVariant"
    /\ \E k, l \in 1..Len(generatedVariants) :
          /\ generatedVariants[k].color = Trim(<< " ", "T", "e", "a", "l", " " >>)
          /\ generatedVariants[l].color = Red

\* the place of x in the sequence, 0 when x is not in it
Position(seq, x) ==
    IF Includes(seq, x) THEN CHOOSE i \in 1..Len(seq) : seq[i] = x ELSE 0

\* every required field of the shipping address holds some text
RequiredAddressFilled(values) ==
    /\ values.shippingAddress.addressLine1 # <<>>
    /\ values.shippingAddress.city # <<>>
    /\ values.shippingAddress.state # <<>>
    /\ values.shippingAddress.postalCode # <<>>
    /\ values.shippingAddress.country # <<>>

\* C13: the checkout Next handler moves Shipping to Payment exactly when every
\* required address field is filled and Payment to Review exactly when the
\* payment method is one of the three methods; otherwise the step stays.  From
\* Shipping with an empty required field it never reaches Payment.
C13_AdvanceIffValid ==
    [][ handler' = "handleNextStep" =>
          /\ step = "shipping" =>
                step' = IF RequiredAddressFilled(checkoutForm) THEN "payment" ELSE "shipping"
          /\ step = "payment" =>
                step' = IF checkoutForm.paymentMethod \in { "cod", "paypal", "stripe" }
                        THEN "review" ELSE "payment"
          /\ (step = "shipping" /\ \E field \in RequiredShippingFields :
                                      checkoutForm.shippingAddress[field] = <<>>) =>
                step' # "payment" ]_vars

\* Next was clicked on the shipping step with the address typed but the city
\* left empty, and the step stayed
C13_Witness ==
    /\ handler = "handleNextStep"
    /\ step = "shipping"
    /\ checkoutForm.shippingAddress.addressLine1 # <<>>
    /\ checkoutForm.shippingAddress.city = <<>>

\* the field group of a checkout step passes the schema
StepGroupValid(s, values) ==
    IF s = "shipping" THEN RequiredAddressFilled(values)
    ELSE values.paymentMethod \in { "cod", "paypal", "stripe" }

\* C14 as stated: in both forms a transition to a later step goes to the step
\* right after the current one, and only when the current step validated.
C14_NoForwardSkip ==
    [][ /\ Position(Steps, step') > Position(Steps, step) =>
              /\ Position(Steps, step') = Position(Steps, step) + 1
              /\ handler' = "handleNextStep"
              /\ StepGroupValid(step, checkoutForm)
        /\ Position(Tabs, activeTab') > Position(Tabs, activeTab) =>
              /\ Position(Tabs, activeTab') = Position(Tabs, activeTab) + 1
              /\ handler' = "nextTab"
              /\ ProductFormValid(form) ]_vars

\* C14, amended: in the checkout a transition to a later step goes to the step
\* right after the current one, is made by the Next handler and only when the
\* current step's field group validated.  In the product form the tab changes
\* by a tab trigger, a Next button or a Previous button, none of which
\* validates or changes a field.
C14_CheckoutNoForwardSkip ==
    [][ /\ Position(Steps, step') > Position(Steps, step) =>
              /\ Position(Steps, step') = Position(Steps, step) + 1
              /\ handler' = "handleNextStep"
              /\ StepGroupValid(step, checkoutForm)
        /\ activeTab' # activeTab =>
              /\ handler' \in { "selectTab", "nextTab", "previousTab" }
              /\ UNCHANGED << form, productRequests >> ]_vars

\* the Next handler took the checkout to the review step
C14_Witness ==
    /\ handler = "handleNextStep"
    /\ step = "review"
    /\ RequiredAddressFilled(checkoutForm)

\* C15: the current step of each form is one of its named steps.
C15_StepInFixedSet ==
    /\ step \in { "shipping", "payment", "review" }
    /\ activeTab \in { "basic", "pricing", "inventory", "category", "media", "variants" }

\* C16: the checkout Back handler moves Review to Payment and Payment to
\* Shipping whatever the form holds, does nothing on Shipping, and changes no
\* form value.
C16_RetreatKeepsFields ==
    [][ handler' = "handlePreviousStep" =>
          /\ step = "review" => step' = "payment"
          /\ step = "payment" => step' = "shipping"
          /\ step = "shipping" => step' = "shipping"
          /\ checkoutForm' = checkoutForm
          /\ selectedAddress' = selectedAddress ]_vars

\* Back was clicked on the review step: the payment step shows again, with the
\* payment method, the notes and the address as they were entered
C16_Witness ==
    /\ handler = "handlePreviousStep"
    /\ step = "payment"
    /\ checkoutForm.paymentMethod = "cod"
    /\ checkoutForm.notes # <<>>
    /\ RequiredAddressFilled(checkoutForm)

\* C17: a change of the checkout step made by anything but the Next and the
\* Back handler starts on the review step, goes to an earlier step and changes
\* no form value.
C17_JumpOnlyFromReview ==
    [][ (step' # step /\ handler' \notin { "handleNextStep", "handlePreviousStep" }) =>
          /\ step = "review"
          /\ Position(Steps, step') < Position(Steps, step)
          /\ checkoutForm' = checkoutForm ]_vars

\* Change took the checkout from the review step back to the shipping step, with
\* the address and the notes still entered
C17_Witness ==
    /\ handler = "change"
    /\ step = "shipping"
    /\ RequiredAddressFilled(checkoutForm)
    /\ checkoutForm.notes # <<>>

\* a product request was sent in this step
ProductRequestSent == Len(productRequests') > Len(productRequests)

\* an order request was sent in this step
OrderRequestSent == orderRequest'.pending /\ ~orderRequest.pending

C19_FrozenWhilePending ==
    [][ /\ (Len(productRequests) > 0 /\ handler' \notin { "saveSucceeded", "saveFailed" }) =>
              UNCHANGED << activeTab, form, selectedColors, selectedSizes, generatedVariants >>
        /\ (orderRequest.pending /\ handler' \notin { "orderPlaced", "orderFailed" }) =>
              UNCHANGED << step, checkoutForm >> ]_vars

\* the variants a product request carries
SentVariants(request) ==
    IF request.productData.hasVariants THEN request.productData.variants ELSE <<>>

\* C20: when a request fails an error notice is raised, the submit control is
\* released, and the state is what it was when the request was sent: the form
\* values and the generated collection are those the request carries, and the
\* checkout is on the review step with the values it submitted.
C20_FailurePreservesState ==
    [][ /\ handler' = "saveFailed" =>
              /\ toast' = "Error"
              /\ ~isSubmitting'
              /\ \E k \in 1..Len(productRequests) :
                    /\ productRequests' = DeleteAt(productRequests, k)
                    /\ form' = productRequests[k].productData.values
                    /\ generatedVariants' = SentVariants(productRequests[k])
        /\ handler' = "orderFailed" =>
              /\ toast' = "Error"
              /\ ~orderRequest'.pending
              /\ step' = "review"
              /\ checkoutForm' = orderRequest.data ]_vars

\* C21: after a successful product submission the selected colors, the
\* selected sizes and the generated variant collection are all empty.
C21_DiscardedAfterSuccess ==
    handler = "saveSucceeded" =>
        /\ selectedColors = <<>>
        /\ selectedSizes = <<>>
        /\ generatedVariants = <<>>

\* C22: the payload of a product request holds the base form fields; its
\* hasVariants flag is true exactly when the generated collection is not
\* empty as the request is sent, and then its variants are that collection;
\* otherwise it has no variants field.
C22_PayloadPackagesVariants ==
    [][ ProductRequestSent =>
          LET productData == productRequests'[Len(productRequests')].productData
          IN  /\ productData.values = form
              /\ productData.hasVariants = (Len(generatedVariants) > 0)
              /\ IF Len(generatedVariants) > 0
                 THEN productData.variants = generatedVariants
                 ELSE "variants" \notin DOMAIN productData ]_vars

\* Save sent a request that carries the generated records
C22_Witness ==
    /\ handler \in { "save", "saveProduct" }
    /\ Len(productRequests) = 1
    /\ productRequests[1].productData.hasVariants
    /\ Len(productRequests[1].productData.variants) > 0
    /\ productRequests[1].productData.variants = generatedVariants

\* the handlers of the Variants tab that edit an attribute set, by the set
ColorSetHandlers == { "toggleColor", "enterColor", "addColor", "removeCustomColor" }
SizeSetHandlers == { "toggleSize", "enterSize", "addSize", "removeCustomSize" }

C24_NoAdvanceWithEmptyField ==
    /\ [](step \in { "payment", "review" } => RequiredAddressFilled(checkoutForm))
    /\ [][ handler' = "handleNextStep.resume" =>
             /\ validation.step = step
             /\ Position(Steps, step') - Position(Steps, step) \in { 0, 1 } ]_vars

\* a Next click on the shipping step is waiting for its verdict, which is true:
\* the customer selected a saved address and typed a second address line
C24_Witness ==
    /\ validation.pending
    /\ validation.isValid
    /\ validation.step = "shipping"
    /\ step = "shipping"
    /\ selectedAddress = Home
    /\ checkoutForm.shippingAddress.addressLine2 # <<>>

\* the one request in flight was sent by the click that was the last event
SentByLastClick == isSubmitting /\ Len(productRequests) = 1

\* C25: the notice of a successful save names the section whose Save button
\* started it ('<section> saved', and last 'Variants saved' for the Variants
\* tab's Save with generated records); a save started by Save Product
\* reports 'Product created' or 'Product updated'.  Stated for a save whose
\* response is the next event after the click.
C25_NoticeNamesSection ==
    [][ /\ (handler = "save" /\ SentByLastClick /\ handler' = "saveSucceeded") =>
              toast' =
                 IF /\ activeSection = SectionName.VariantsAndAttributes
                    /\ productRequests[1].productData.hasVariants
                 THEN "Variants saved"
                 ELSE activeSection \o " saved"
        /\ (handler = "saveProduct" /\ SentByLastClick /\ handler' = "saveSucceeded") =>
              toast' = IF productRequests[1].method = "PUT"
                       THEN "Product updated" ELSE "Product created" ]_vars

\* C26: at most one request of a form is in flight at any time: once a product
\* save or an order placement has started, no second request is sent before
\* the first one has completed or failed.
C26_SingleRequestInFlight ==
    [][ /\ ProductRequestSent => Len(productRequests) = 0
        /\ orderRequest' # orderRequest /\ orderRequest'.pending => ~orderRequest.pending ]_vars

\* C27: the shipping address shown on the review step is the shippingAddress
\* value of the form, which Place Order submits.
C27_ReviewShowsSubmittedAddress ==
    step = "review" => ReviewAddress = AddressValues(checkoutForm.shippingAddress)

\* C28: in create mode the generated collection is empty in every state, and
\* every create request carries hasVariants = false and no variants field.
C28_CreateModeHasNoVariants ==
    /\ ~isEditing => generatedVariants = <<>> /\ selectedColors = <<>> /\ selectedSizes = <<>>
    /\ \A k \in 1..Len(productRequests) :
          productRequests[k].method = "POST" =>
              /\ ~productRequests[k].productData.hasVariants
              /\ "variants" \notin DOMAIN productRequests[k].productData

\* in create mode the Save button of the Variants tab sent the create request
C28_Witness ==
    /\ mounted = "ProductForm"
    /\ ~isEditing
    /\ activeTab = "variants"
    /\ handler = "save"
    /\ Len(productRequests) = 1
    /\ productRequests[1].method = "POST"

\* the file whose preview the widget is to show: the selected file when it is an
\* image, in multiple mode the first image among the selected files
PreviewedFile ==
    IF multiple
    THEN IF HasImage(selectedFiles) THEN FirstImage(selectedFiles) ELSE NoFile
    ELSE IF selectedFile # NoFile /\ IsImage(selectedFile) THEN selectedFile ELSE NoFile

\* C29: the preview of the upload widget, when set, is the preview of the
\* currently selected file; it is never set while nothing is selected and
\* never shows a file that is no longer selected.
C29_PreviewOfSelectedFile ==
    previewUrl # NoPreview =>
        /\ PreviewedFile # NoFile
        /\ previewUrl = DataUrl(PreviewedFile)

\* C30: a selection with a file over the size limit raises the notice and
\* leaves the selection, the preview and the reads as they were; no selected
\* file and no file of an upload request is larger than the limit.
C30_SizeLimit ==
    /\ [](/\ selectedFile # NoFile => selectedFile.size <= MaxFileSize
          /\ \A k \in 1..Len(selectedFiles) : selectedFiles[k].size <= MaxFileSize
          /\ uploadRequest.pending =>
                \A k \in 1..Len(uploadRequest.files) : uploadRequest.files[k].size <= MaxFileSize)
    /\ [][ (/\ handler' = "handleFileChange"
            /\ \E k \in 1..Len(inputFiles') : inputFiles'[k].size > MaxFileSize) =>
              /\ toast' = IF multiple THEN "Files too large" ELSE "File too large"
              /\ UNCHANGED << selectedFile, selectedFiles, previewUrl, reads, uploadRequest >> ]_vars

\* in multiple mode a batch with one file over the limit was rejected while an
\* earlier selection, with a file of exactly the limit, and its preview stayed
C30_Witness ==
    /\ handler = "handleFileChange"
    /\ toast = "Files too large"
    /\ Len(inputFiles) = 2
    /\ \E k \in 1..Len(selectedFiles) : selectedFiles[k].size = MaxFileSize
    /\ previewUrl # NoPreview

====
